---- MODULE Spec2Model ----
(***************************************************************************)
(* Model of DatabaseManager (src/main.py): the normalisation of one        *)
(* tabular source row into six entity tables and the Record fact table,    *)
(* the ingestion loop with its single commit, and the add / delete /       *)
(* update mutations, over an SQLite connection with a working state and a  *)
(* committed state.                                                        *)
(*                                                                         *)
(* Values.  Text and real columns are modelled as strings ("10.0" is the   *)
(* real 10.0).  Three markers stand for what is not a value:               *)
(*   Absent  the column is not in the frame: Series.get returns its        *)
(*           default;                                                      *)
(*   NaN     the column is in the frame and the cell is empty: Series.get  *)
(*           returns the missing value itself, not the default;            *)
(*   Null    SQL NULL, what sqlite3 stores when NaN (or None) is bound.    *)
(* Integer identifiers are naturals from 1; NoneId is Python's None.       *)
(***************************************************************************)
EXTENDS Integers, Sequences, FiniteSets, TLC

VARIABLES db, committed, pc, batch, idx, skipped, start, prev, ret, conn

vars == <<db, committed, pc, batch, idx, skipped, start, prev, ret, conn>>

\* ---------------------------------------------------------------- bounds
MaxBatchLen == 2
MaxSeq == 3

\* ---------------------------------------------------------------- values
Absent == "ABSENT"
NaN == "NaN"
Null == "NULL"
NoneId == 0

\* row.get(col, default): the default only when the column is not there
Get(row, col, default) == IF row[col] = Absent THEN default ELSE row[col]

\* str(value): a missing cell becomes the text 'nan'
Str(v) == IF v = NaN THEN "nan" ELSE v

\* binding a parameter: sqlite3 stores a float NaN as NULL
Bind(v) == IF v = NaN THEN Null ELSE v

\* SQL '=': never true when either side is NULL
SqlEq(a, b) == a # Null /\ b # Null /\ a = b

\* ---------------------------------------------------------------- schema
EmptyDB ==
  [Organism |-> {}, Observer |-> {}, Location |-> {}, Event |-> {},
   Media |-> {}, DatasetMetadata |-> {}, Record |-> {},
   seq |-> [Observer |-> 0, Location |-> 0, Media |-> 0, DatasetMetadata |-> 0]]

\* AUTOINCREMENT: every INSERT statement on the table takes the next
\* sequence number, an INSERT OR IGNORE that is ignored included
NextId(d, table) == d.seq[table] + 1

BumpSeq(d, table) == [d.seq EXCEPT ![table] = @ + 1]

\* ---------------------------------------------------------------- resolvers
\* an Organism resolver that writes with INSERT OR REPLACE, as the fact
\* writer does
InsertOrganismReplace(d, row) ==
  LET organism_id == Str(Get(row, "organism_id", Get(row, "occurrence_id", "")))
      new == [organism_id |-> organism_id,
              scientific_name |-> Bind(Get(row, "scientific_name", ""))]
      ignored == new.scientific_name = Null
      others == {o \in d.Organism : ~SqlEq(o.organism_id, organism_id)}
  IN [db |-> IF ignored THEN d ELSE [d EXCEPT !.Organism = others \cup {new}],
      id |-> organism_id]

InsertOrganism(d, row) ==
  LET organism_id == Str(Get(row, "organism_id", Get(row, "occurrence_id", "")))
      new == [organism_id |-> organism_id,
              scientific_name |-> Bind(Get(row, "scientific_name", ""))]
      ignored == \/ new.scientific_name = Null
                 \/ \E o \in d.Organism : SqlEq(o.organism_id, organism_id)
  IN [db |-> IF ignored THEN d ELSE [d EXCEPT !.Organism = @ \cup {new}],
      id |-> organism_id]

InsertObserver(d, row) ==
  LET recorded_by == Bind(Get(row, "recorded_by", ""))
      new == [observer_id |-> NextId(d, "Observer"),
              recorded_by |-> recorded_by,
              institution_code |-> Bind(Get(row, "institution_code", ""))]
      ignored == \/ recorded_by = Null
                 \/ \E o \in d.Observer : SqlEq(o.recorded_by, recorded_by)
      table == IF ignored THEN d.Observer ELSE d.Observer \cup {new}
      found == {o \in table : SqlEq(o.recorded_by, recorded_by)}
  IN [db |-> [d EXCEPT !.Observer = table, !.seq = BumpSeq(d, "Observer")],
      id |-> IF found = {} THEN NoneId ELSE (CHOOSE o \in found : TRUE).observer_id]

SameLocation(l, k) ==
  /\ SqlEq(l.higher_geography, k.higher_geography)
  /\ SqlEq(l.water_body, k.water_body)
  /\ SqlEq(l.locality, k.locality)
  /\ SqlEq(l.verbatim_locality, k.verbatim_locality)

InsertLocation(d, row) ==
  LET new == [location_id |-> NextId(d, "Location"),
              higher_geography |-> Bind(Get(row, "higher_geography", "")),
              water_body |-> Bind(Get(row, "water_body", "")),
              locality |-> Bind(Get(row, "locality", "")),
              verbatim_locality |-> Bind(Get(row, "verbatim_locality", ""))]
      ignored == \E l \in d.Location : SameLocation(l, new)
      table == IF ignored THEN d.Location ELSE d.Location \cup {new}
      found == {l \in table : SameLocation(l, new)}
  IN [db |-> [d EXCEPT !.Location = table, !.seq = BumpSeq(d, "Location")],
      id |-> IF found = {} THEN NoneId ELSE (CHOOSE l \in found : TRUE).location_id]

InsertEvent(d, row) ==
  LET event_id == Str(Get(row, "event_id", Get(row, "occurrence_id", "")))
      new == [event_id |-> event_id,
              basis_of_record |-> Bind(Get(row, "basis_of_record", ""))]
      ignored == \E e \in d.Event : SqlEq(e.event_id, event_id)
  IN [db |-> IF ignored THEN d ELSE [d EXCEPT !.Event = @ \cup {new}],
      id |-> event_id]

SameMedia(m, k) ==
  /\ SqlEq(m.external_resource, k.external_resource)
  /\ SqlEq(m.catalog_number, k.catalog_number)

InsertMedia(d, row) ==
  LET new == [media_id |-> NextId(d, "Media"),
              external_resource |-> Bind(Get(row, "external_resource", "")),
              catalog_number |-> Bind(Get(row, "catalog_number", ""))]
      ignored == \E m \in d.Media : SameMedia(m, new)
      table == IF ignored THEN d.Media ELSE d.Media \cup {new}
      found == {m \in table : SameMedia(m, new)}
  IN [db |-> [d EXCEPT !.Media = table, !.seq = BumpSeq(d, "Media")],
      id |-> IF found = {} THEN NoneId ELSE (CHOOSE m \in found : TRUE).media_id]

\* a metadata resolver that deduplicates on oid like the other resolvers
InsertDatasetMetadataDedup(d, row) ==
  LET new == [dataset_metadata_id |-> NextId(d, "DatasetMetadata"),
              oid |-> Bind(Get(row, "oid", ""))]
      same == {m \in d.DatasetMetadata : SqlEq(m.oid, new.oid)}
  IN IF same = {}
     THEN [db |-> [d EXCEPT !.DatasetMetadata = @ \cup {new},
                            !.seq = BumpSeq(d, "DatasetMetadata")],
           id |-> new.dataset_metadata_id]
     ELSE [db |-> [d EXCEPT !.seq = BumpSeq(d, "DatasetMetadata")],
           id |-> (CHOOSE m \in same : TRUE).dataset_metadata_id]

InsertDatasetMetadata(d, row) ==
  LET new == [dataset_metadata_id |-> NextId(d, "DatasetMetadata"),
              oid |-> Bind(Get(row, "oid", ""))]
  IN [db |-> [d EXCEPT !.DatasetMetadata = @ \cup {new},
                       !.seq = BumpSeq(d, "DatasetMetadata")],
      id |-> new.dataset_metadata_id]

\* the fact row computed from a source row and the six identifiers
FactRow(row, organism_id, observer_id, location_id, event_id, media_id, dataset_metadata_id) ==
  [occurrence_id |-> Bind(Get(row, "occurrence_id", "")),
   decimal_latitude |-> Bind(Get(row, "decimal_latitude", "0.0")),
   event_date |-> Bind(Get(row, "event_date", "")),
   event_id |-> event_id,
   organism_id |-> organism_id,
   observer_id |-> observer_id,
   location_id |-> location_id,
   media_id |-> media_id,
   dataset_metadata_id |-> dataset_metadata_id]

\* INSERT OR REPLACE: the rows whose primary key equals the new one go
InsertRecord(d, new) ==
  [d EXCEPT !.Record =
     {r \in @ : ~SqlEq(r.occurrence_id, new.occurrence_id)} \cup {new}]

\* a normaliser that treats an identifier that could not be resolved as
\* fatal: it raises before the fact row is written
ProcessCsvRowStrict(d, row) ==
  LET k == row.raises_at
      r1 == InsertOrganism(d, row)
      r2 == InsertObserver(r1.db, row)
      r3 == InsertLocation(r2.db, row)
      r4 == InsertEvent(r3.db, row)
      r5 == InsertMedia(r4.db, row)
      r6 == InsertDatasetMetadata(r5.db, row)
      r7 == InsertRecord(r6.db, FactRow(row, r1.id, r2.id, r3.id, r4.id, r5.id, r6.id))
  IN CASE k = 1 -> [db |-> d, raised |-> TRUE]
       [] k = 2 -> [db |-> r1.db, raised |-> TRUE]
       [] k = 3 -> [db |-> r2.db, raised |-> TRUE]
       [] k = 4 -> [db |-> r3.db, raised |-> TRUE]
       [] k = 5 -> [db |-> r4.db, raised |-> TRUE]
       [] k = 6 -> [db |-> r5.db, raised |-> TRUE]
       [] k = 7 -> [db |-> r6.db, raised |-> TRUE]
       [] NoneId \in {r2.id, r3.id, r5.id} -> [db |-> r6.db, raised |-> TRUE]
       [] OTHER -> [db |-> r7, raised |-> FALSE]

\* _process_csv_row: the seven steps in order; row.raises_at = k > 0 is a row
\* one of whose values makes the statement of step k raise (a value sqlite3
\* cannot bind), which leaves the effects of steps 1..k-1 in the working state
ProcessCsvRow(d, row) ==
  LET k == row.raises_at
      r1 == InsertOrganism(d, row)
      r2 == InsertObserver(r1.db, row)
      r3 == InsertLocation(r2.db, row)
      r4 == InsertEvent(r3.db, row)
      r5 == InsertMedia(r4.db, row)
      r6 == InsertDatasetMetadata(r5.db, row)
      r7 == InsertRecord(r6.db, FactRow(row, r1.id, r2.id, r3.id, r4.id, r5.id, r6.id))
  IN CASE k = 1 -> [db |-> d, raised |-> TRUE]
       [] k = 2 -> [db |-> r1.db, raised |-> TRUE]
       [] k = 3 -> [db |-> r2.db, raised |-> TRUE]
       [] k = 4 -> [db |-> r3.db, raised |-> TRUE]
       [] k = 5 -> [db |-> r4.db, raised |-> TRUE]
       [] k = 6 -> [db |-> r5.db, raised |-> TRUE]
       [] k = 7 -> [db |-> r6.db, raised |-> TRUE]
       [] OTHER -> [db |-> r7, raised |-> FALSE]

\* ---------------------------------------------------------------- transactions
\* conn.commit(): the working state becomes the committed state
Commit(working, durable) == working

\* a rollback that is missing: the working state stays as the failed call
\* left it
RollbackKeepsWorking(working, durable) == working

\* conn.rollback(): the working state goes back to the committed state
Rollback(working, durable) == durable

\* ---------------------------------------------------------------- inputs
\* a source row over the modelled columns; the columns that no modelled
\* source carries (higher_geography, verbatim_locality, ...) are Absent
Src(occ, sci, rb, inst, wb, loc, ext, lat, date, k) ==
  [occurrence_id |-> occ, organism_id |-> Absent, scientific_name |-> sci,
   recorded_by |-> rb, institution_code |-> inst,
   higher_geography |-> Absent, water_body |-> wb, locality |-> loc,
   verbatim_locality |-> Absent,
   event_id |-> Absent, basis_of_record |-> Absent,
   external_resource |-> ext, catalog_number |-> Absent, oid |-> Absent,
   decimal_latitude |-> lat, event_date |-> date, raises_at |-> k]

\* two sightings of occurrence X that differ in every non-key value
RowX1 == Src("X", "S1", "bob", "I1", "W1", "L1", "e1", "10.0", "2024-01-01", 0)
RowX2 == Src("X", "S2", "bob", "I2", "W1", "L1", "e1", "20.0", "2024-06-01", 0)
\* a sighting at the same place by another observer, without media
RowY == Src("Y", "S1", "amy", "I1", "W1", "L1", NaN, "10.0", "2024-06-01", 0)
\* a line all of whose cells are empty, the occurrence id included
RowEmptyCells == Src(NaN, NaN, NaN, NaN, NaN, NaN, NaN, NaN, NaN, 0)
\* a row with a value that the Record insert cannot bind
RowRaise7 == Src("X", "S2", "cat", "I1", "W1", "L2", "e2", "10.0", "2024-01-01", 7)
\* a record_data dictionary with few keys, occurrence_id not among them
RowFewKeys == Src(Absent, "S1", "bob", Absent, Absent, "L1", Absent, "10.0", Absent, 0)

SourceRows ==
  {RowX1, RowX2, RowY, RowEmptyCells, RowRaise7, RowFewKeys}

\* the columns of the frame a row comes from
Columns(row) == {c \in DOMAIN row \ {"raises_at"} : row[c] # Absent}

RECURSIVE SeqsUpTo(_, _)
SeqsUpTo(S, n) ==
  IF n = 0 THEN {<<>>}
  ELSE LET shorter == SeqsUpTo(S, n - 1)
       IN shorter \cup {Append(b, r) : b \in shorter, r \in S}

\* the frames read_csv can return: every row of a frame has the same columns
Batches ==
  {b \in SeqsUpTo(SourceRows, MaxBatchLen) :
     \A i, j \in 1..Len(b) : Columns(b[i]) = Columns(b[j])}

OccurrenceIds == {"X", "Z"}

\* update_data dictionaries: decimal_latitude and event_date are among
\* record_fields, scientific_name is not
Upd(lat, date, sci) ==
  [decimal_latitude |-> lat, event_date |-> date, scientific_name |-> sci]

UpdateInputs ==
  {Upd("30.0", Absent, Absent), Upd(Absent, "2025-01-01", "S9"),
   Upd(Absent, Absent, "S9"), Upd(Absent, Absent, Absent)}

record_fields == {"decimal_latitude", "event_date"}

\* the identifier add_new_record makes up from the clock
GeneratedId == "new_T"

\* ---------------------------------------------------------------- bookkeeping
None == "None"

Result(op, raised, readFailed, value, ok, arg) ==
  [op |-> op, raised |-> raised, readFailed |-> readFailed, value |-> value,
   ok |-> ok, arg |-> arg]

Counts(d) ==
  [Organism |-> Cardinality(d.Organism), Observer |-> Cardinality(d.Observer),
   Location |-> Cardinality(d.Location), Event |-> Cardinality(d.Event),
   Media |-> Cardinality(d.Media),
   DatasetMetadata |-> Cardinality(d.DatasetMetadata)]

NoPrev == [valid |-> FALSE, batch |-> <<>>, counts |-> Counts(EmptyDB), fresh |-> FALSE]

\* kept while load_csv_data runs on frame b and until the next call: whether
\* the call that returned just before it was a load of the same frame whose
\* read succeeded, and the table sizes that load left
Summary(b) ==
  IF ret.op = "load" /\ ~ret.readFailed /\ batch = b
  THEN [valid |-> TRUE, batch |-> batch, counts |-> Counts(committed),
        fresh |-> start = EmptyDB]
  ELSE NoPrev

MaxOf(S) == CHOOSE m \in S : \A x \in S : x <= m

\* identifiers handed out so far (bounds the model)
SeqUsed(d) == MaxOf({d.seq[t] : t \in DOMAIN d.seq})

\* ---------------------------------------------------------------- operations
Init ==
  /\ db = EmptyDB
  /\ committed = EmptyDB
  /\ pc = "start"
  /\ conn = [opened |-> FALSE, closes |-> 0]
  /\ batch = <<>>
  /\ idx = 1
  /\ skipped = {}
  /\ start = EmptyDB
  /\ prev = NoPrev
  /\ ret = Result("init", FALSE, FALSE, None, FALSE, None)

\* DatabaseManager(db_path) and __enter__: the connection is opened and the
\* tables are provisioned; the with-body starts
Construct ==
  /\ pc = "start"
  /\ conn' = [opened |-> TRUE, closes |-> 0]
  /\ pc' = "idle"
  /\ UNCHANGED <<db, committed, batch, idx, skipped, start, prev, ret>>

\* sqlite3.connect raises: there is no connection and no manager
ConnectFails ==
  /\ pc = "start"
  /\ pc' = "aborted"
  /\ UNCHANGED <<db, committed, batch, idx, skipped, start, prev, ret, conn>>

\* create_tables raises after sqlite3.connect returned: __init__ raises, the
\* with statement has no manager to enter or to exit
ProvisionFails ==
  /\ pc = "start"
  /\ conn' = [opened |-> TRUE, closes |-> 0]
  /\ pc' = "aborted"
  /\ UNCHANGED <<db, committed, batch, idx, skipped, start, prev, ret>>

\* close(): self.conn is set, so conn.close() is called
Close(c) == [c EXCEPT !.closes = @ + 1]

\* the with-body ends normally: __exit__ closes
ExitNormal ==
  /\ pc = "idle"
  /\ conn' = Close(conn)
  /\ pc' = "closed"
  /\ UNCHANGED <<db, committed, batch, idx, skipped, start, prev, ret>>

\* the exception that add_new_record re-raised leaves the with-body:
\* __exit__ closes and the exception goes on
ExitOnException ==
  /\ pc = "idle"
  /\ ret.op = "add"
  /\ ret.raised
  /\ conn' = Close(conn)
  /\ pc' = "raised"
  /\ UNCHANGED <<db, committed, batch, idx, skipped, start, prev, ret>>

\* load_csv_data, read_csv succeeds: the row loop starts
LoadStart(b) ==
  /\ pc = "idle"
  /\ SeqUsed(db) + Len(b) <= MaxSeq
  /\ prev' = Summary(b)
  /\ start' = committed
  /\ batch' = b
  /\ idx' = 1
  /\ skipped' = {}
  /\ pc' = "loop"
  /\ ret' = Result("running", FALSE, FALSE, None, FALSE, None)
  /\ UNCHANGED <<db, committed>>
  /\ UNCHANGED conn

\* a reader that hands over the first row before it fails, with a handler
\* that commits what was processed
LoadReadFailAfterPartialCommit ==
  /\ pc = "idle"
  /\ prev' = NoPrev
  /\ start' = committed
  /\ batch' = <<>>
  /\ idx' = 1
  /\ skipped' = {}
  /\ \E b \in Batches :
       /\ Len(b) >= 1
       /\ SeqUsed(db) + 1 <= MaxSeq
       /\ db' = ProcessCsvRow(db, b[1]).db
       /\ committed' = ProcessCsvRow(db, b[1]).db
  /\ ret' = Result("load", FALSE, TRUE, None, FALSE, None)
  /\ UNCHANGED pc
  /\ UNCHANGED conn

\* a handler that rolls back and raises again, as add_new_record does
LoadReadFailReraise ==
  /\ pc = "idle"
  /\ prev' = NoPrev
  /\ start' = committed
  /\ batch' = <<>>
  /\ idx' = 1
  /\ skipped' = {}
  /\ db' = Rollback(db, committed)
  /\ ret' = Result("load", TRUE, TRUE, None, FALSE, None)
  /\ UNCHANGED <<committed, pc>>
  /\ UNCHANGED conn

\* load_csv_data, read_csv raises: logged, rolled back, and the call returns
LoadReadFail ==
  /\ pc = "idle"
  /\ prev' = NoPrev
  /\ start' = committed
  /\ batch' = <<>>
  /\ idx' = 1
  /\ skipped' = {}
  /\ db' = Rollback(db, committed)
  /\ ret' = Result("load", FALSE, TRUE, None, FALSE, None)
  /\ UNCHANGED <<committed, pc>>
  /\ UNCHANGED conn

\* a loop that stops at the first row that raises instead of going on
LoadRowBreakOnRaise ==
  /\ pc = "loop"
  /\ idx <= Len(batch)
  /\ LET p == ProcessCsvRow(db, batch[idx])
     IN /\ db' = p.db
        /\ skipped' = IF p.raised THEN skipped \cup {idx} ELSE skipped
        /\ idx' = IF p.raised THEN Len(batch) + 1 ELSE idx + 1
  /\ UNCHANGED <<committed, pc, batch, start, prev, ret>>
  /\ UNCHANGED conn

\* a loop that commits after every row
LoadRowCommitEach ==
  /\ pc = "loop"
  /\ idx <= Len(batch)
  /\ LET p == ProcessCsvRow(db, batch[idx])
     IN /\ db' = p.db
        /\ committed' = Commit(p.db, committed)
        /\ skipped' = IF p.raised THEN skipped \cup {idx} ELSE skipped
  /\ idx' = idx + 1
  /\ UNCHANGED <<pc, batch, start, prev, ret>>
  /\ UNCHANGED conn

\* a loop that undoes what a row wrote when the row raises
LoadRowUndoOnRaise ==
  /\ pc = "loop"
  /\ idx <= Len(batch)
  /\ LET p == ProcessCsvRow(db, batch[idx])
     IN /\ db' = IF p.raised THEN db ELSE p.db
        /\ skipped' = IF p.raised THEN skipped \cup {idx} ELSE skipped
  /\ idx' = idx + 1
  /\ UNCHANGED <<committed, pc, batch, start, prev, ret>>
  /\ UNCHANGED conn

\* one turn of the row loop: the row is normalised; if it raises, the error
\* is logged with its index and the loop goes on
LoadRow ==
  /\ pc = "loop"
  /\ idx <= Len(batch)
  /\ LET p == ProcessCsvRow(db, batch[idx])
     IN /\ db' = p.db
        /\ skipped' = IF p.raised THEN skipped \cup {idx} ELSE skipped
  /\ idx' = idx + 1
  /\ UNCHANGED <<committed, pc, batch, start, prev, ret>>
  /\ UNCHANGED conn

\* the loop is over: the one commit of the batch, and the call returns
LoadCommit ==
  /\ pc = "loop"
  /\ idx > Len(batch)
  /\ committed' = Commit(db, committed)
  /\ pc' = "idle"
  /\ ret' = Result("load", FALSE, FALSE, None, FALSE, None)
  /\ UNCHANGED <<db, batch, idx, skipped, start, prev>>
  /\ UNCHANGED conn

\* the process dies in the row loop; the next connection sees the committed
\* store
Crash ==
  /\ pc = "loop"
  /\ db' = committed
  /\ pc' = "idle"
  /\ ret' = Result("crash", FALSE, FALSE, None, FALSE, None)
  /\ UNCHANGED <<committed, batch, idx, skipped, start, prev>>
  /\ UNCHANGED conn

\* add_new_record(record_data)
AddNewRecord(record_data) ==
  /\ pc = "idle"
  /\ SeqUsed(db) + 1 <= MaxSeq
  /\ prev' = NoPrev
  /\ start' = committed
  /\ batch' = <<record_data>>
  /\ idx' = 1
  /\ skipped' = {}
  /\ LET p == ProcessCsvRow(db, record_data)
         occurrence_id == Get(record_data, "occurrence_id", GeneratedId)
     IN IF p.raised
        THEN /\ db' = Rollback(p.db, committed)
             /\ committed' = committed
             /\ ret' = Result("add", TRUE, FALSE, None, FALSE, None)
        ELSE /\ db' = p.db
             /\ committed' = Commit(p.db, committed)
             /\ ret' = Result("add", FALSE, FALSE, occurrence_id, FALSE, None)
  /\ UNCHANGED pc
  /\ UNCHANGED conn

\* a delete that reports success whether or not a row went
DeleteRecordAlwaysTrue(occurrence_id) ==
  /\ pc = "idle"
  /\ prev' = NoPrev
  /\ start' = committed
  /\ batch' = <<>>
  /\ idx' = 1
  /\ skipped' = {}
  /\ LET hit == {r \in db.Record : SqlEq(r.occurrence_id, occurrence_id)}
         after == [db EXCEPT !.Record = @ \ hit]
     IN /\ db' = after
        /\ committed' = Commit(after, committed)
        /\ ret' = Result("delete", FALSE, FALSE, None, TRUE, occurrence_id)
  /\ UNCHANGED <<pc, conn>>

\* a delete that also removes the metadata row the fact row pointed to
DeleteRecordCascade(occurrence_id) ==
  /\ pc = "idle"
  /\ prev' = NoPrev
  /\ start' = committed
  /\ batch' = <<>>
  /\ idx' = 1
  /\ skipped' = {}
  /\ LET hit == {r \in db.Record : SqlEq(r.occurrence_id, occurrence_id)}
         after == [db EXCEPT
                     !.Record = @ \ hit,
                     !.DatasetMetadata =
                        {m \in @ : \A r \in hit :
                           r.dataset_metadata_id # m.dataset_metadata_id}]
     IN IF hit # {}
        THEN /\ db' = after
             /\ committed' = Commit(after, committed)
             /\ ret' = Result("delete", FALSE, FALSE, None, TRUE, occurrence_id)
        ELSE /\ ret' = Result("delete", FALSE, FALSE, None, FALSE, occurrence_id)
             /\ UNCHANGED <<db, committed>>
  /\ UNCHANGED <<pc, conn>>

\* a delete that leaves the removal uncommitted
DeleteRecordNoCommit(occurrence_id) ==
  /\ pc = "idle"
  /\ prev' = NoPrev
  /\ start' = committed
  /\ batch' = <<>>
  /\ idx' = 1
  /\ skipped' = {}
  /\ LET hit == {r \in db.Record : SqlEq(r.occurrence_id, occurrence_id)}
         after == [db EXCEPT !.Record = @ \ hit]
     IN /\ db' = after
        /\ ret' = Result("delete", FALSE, FALSE, None, hit # {}, occurrence_id)
  /\ UNCHANGED <<committed, pc, conn>>

\* delete_record(occurrence_id)
DeleteRecord(occurrence_id) ==
  /\ pc = "idle"
  /\ prev' = NoPrev
  /\ start' = committed
  /\ batch' = <<>>
  /\ idx' = 1
  /\ skipped' = {}
  /\ LET hit == {r \in db.Record : SqlEq(r.occurrence_id, occurrence_id)}
         after == [db EXCEPT !.Record = @ \ hit]
     IN IF hit # {}
        THEN /\ db' = after
             /\ committed' = Commit(after, committed)
             /\ ret' = Result("delete", FALSE, FALSE, None, TRUE, occurrence_id)
        ELSE /\ ret' = Result("delete", FALSE, FALSE, None, FALSE, occurrence_id)
             /\ UNCHANGED <<db, committed>>
  /\ UNCHANGED pc
  /\ UNCHANGED conn

\* an UPDATE that writes every field of record_fields, the ones update_data
\* does not name with their defaults
SetFieldsAll(r, update_data) ==
  [f \in DOMAIN r |->
     IF f \in record_fields
     THEN Bind(Get(update_data, f, IF f = "decimal_latitude" THEN "0.0" ELSE ""))
     ELSE r[f]]

\* the UPDATE statement: the record_fields that update_data names are set
SetFields(r, update_data) ==
  [f \in DOMAIN r |->
     IF f \in record_fields /\ update_data[f] # Absent
     THEN Bind(update_data[f]) ELSE r[f]]

\* an update that reports success whenever the row exists
UpdateRecordTrueIfExists(occurrence_id, update_data) ==
  /\ pc = "idle"
  /\ prev' = NoPrev
  /\ start' = committed
  /\ batch' = <<>>
  /\ idx' = 1
  /\ skipped' = {}
  /\ LET current_record == {r \in db.Record : SqlEq(r.occurrence_id, occurrence_id)}
         after == [db EXCEPT !.Record =
                     {IF r \in current_record THEN SetFields(r, update_data) ELSE r :
                        r \in @}]
     IN IF current_record # {}
        THEN /\ db' = after
             /\ committed' = Commit(after, committed)
             /\ ret' = Result("update", FALSE, FALSE, None, TRUE, occurrence_id)
        ELSE /\ ret' = Result("update", FALSE, FALSE, None, FALSE, occurrence_id)
             /\ UNCHANGED <<db, committed>>
  /\ UNCHANGED <<pc, conn>>

\* update_record(occurrence_id, update_data)
UpdateRecord(occurrence_id, update_data) ==
  /\ pc = "idle"
  /\ prev' = NoPrev
  /\ start' = committed
  /\ batch' = <<>>
  /\ idx' = 1
  /\ skipped' = {}
  /\ LET current_record == {r \in db.Record : SqlEq(r.occurrence_id, occurrence_id)}
         update_fields == {f \in record_fields : update_data[f] # Absent}
         after == [db EXCEPT !.Record =
                     {IF r \in current_record THEN SetFields(r, update_data) ELSE r :
                        r \in @}]
     IN IF current_record # {} /\ update_fields # {}
        THEN /\ db' = after
             /\ committed' = Commit(after, committed)
             /\ ret' = Result("update", FALSE, FALSE, None, TRUE, occurrence_id)
        ELSE /\ ret' = Result("update", FALSE, FALSE, None, FALSE, occurrence_id)
             /\ UNCHANGED <<db, committed>>
  /\ UNCHANGED pc
  /\ UNCHANGED conn

\* the characters of the texts the model stores or searches for
Chars(v) ==
  CASE v = "" -> <<>>
    [] v = "S1" -> <<"S", "1">>
    [] v = "S2" -> <<"S", "2">>
    [] v = "L1" -> <<"L", "1">>
    [] v = "L2" -> <<"L", "2">>
    [] v = "bob" -> <<"b", "o", "b">>
    [] v = "amy" -> <<"a", "m", "y">>
    [] v = "cat" -> <<"c", "a", "t">>
    [] v = "s" -> <<"s">>
    [] v = "bo" -> <<"b", "o">>
    [] v = "zz" -> <<"z", "z">>

\* LIKE folds the case of ASCII letters
Lower(c) == CASE c = "S" -> "s" [] c = "L" -> "l" [] OTHER -> c

Folded(v) == [i \in 1..Len(Chars(v)) |-> Lower(Chars(v)[i])]

\* column LIKE '%x%': x occurs in the column's text; never true on NULL
Like(v, x) ==
  /\ v # Null
  /\ \E i \in 0..(Len(Folded(v)) - Len(Folded(x))) :
       SubSeq(Folded(v), i + 1, i + Len(Folded(x))) = Folded(x)

\* the order of the TEXT values of event_date and of the date parameters
TextRank(v) ==
  CASE v = "" -> 0
    [] v = "2024-01-01" -> 1
    [] v = "2024-03-01" -> 2
    [] v = "2024-06-01" -> 3
    [] v = "2024-12-31" -> 4
    [] v = "2025-01-01" -> 5

\* r.event_date >= ?: never true on NULL
SqlGe(a, b) == a # Null /\ TextRank(a) >= TextRank(b)

\* r.event_date <= ?: never true on NULL
SqlLe(a, b) == a # Null /\ TextRank(a) <= TextRank(b)

\* Record JOIN Organism JOIN Observer JOIN Location: a fact row comes with
\* every triple of entity rows its three identifiers equal
Joined(d) ==
  {[r |-> r, scientific_name |-> o.scientific_name,
    recorded_by |-> obs.recorded_by, locality |-> l.locality] :
     <<r, o, obs, l>> \in
       {t \in d.Record \X d.Organism \X d.Observer \X d.Location :
          /\ SqlEq(t[1].organism_id, t[2].organism_id)
          /\ t[1].observer_id # NoneId
          /\ t[1].observer_id = t[3].observer_id
          /\ t[1].location_id # NoneId
          /\ t[1].location_id = t[4].location_id}}

\* kwargs.get(key) is truthy: the key is there and its text is not empty
Given(kwargs, key) == kwargs[key] # Absent /\ kwargs[key] # ""

\* the condition one filter adds to the WHERE clause
Condition(j, kwargs, key) ==
  CASE key = "species" -> Like(j.scientific_name, kwargs.species)
    [] key = "location" -> Like(j.locality, kwargs.location)
    [] key = "observer" -> Like(j.recorded_by, kwargs.observer)
    [] key = "start_date" -> SqlGe(j.r.event_date, kwargs.start_date)
    [] key = "end_date" -> SqlLe(j.r.event_date, kwargs.end_date)

Filters == {"species", "location", "observer", "start_date", "end_date"}

\* the rows the SELECT returns (as a set: the order is not modelled)
Select(d, kwargs) ==
  {j \in Joined(d) : \A key \in Filters : Given(kwargs, key) => Condition(j, kwargs, key)}

Kwargs(species, location, observer, start_date, end_date) ==
  [species |-> species, location |-> location, observer |-> observer,
   start_date |-> start_date, end_date |-> end_date]

SearchInputs ==
  {Kwargs(Absent, Absent, Absent, Absent, Absent),
   Kwargs("", Absent, Absent, Absent, Absent),
   Kwargs("s", Absent, Absent, Absent, Absent),
   Kwargs("zz", Absent, Absent, Absent, Absent),
   Kwargs("S1", Absent, "bo", Absent, Absent),
   Kwargs(Absent, "L1", Absent, "2024-03-01", "2024-12-31")}

\* search_records(**kwargs)
SearchRecords(kwargs) ==
  /\ pc = "idle"
  /\ prev' = NoPrev
  /\ start' = committed
  /\ batch' = <<>>
  /\ idx' = 1
  /\ skipped' = {}
  /\ ret' = Result("search", FALSE, FALSE, Select(db, kwargs), FALSE, kwargs)
  /\ UNCHANGED <<db, committed, pc, conn>>

Next ==
  \/ Construct
  \/ ConnectFails
  \/ ProvisionFails
  \/ ExitNormal
  \/ ExitOnException
  \/ \E b \in Batches : LoadStart(b)
  \/ LoadReadFail
  \/ LoadRow
  \/ LoadCommit
  \/ Crash
  \/ \E record_data \in SourceRows : AddNewRecord(record_data)
  \/ \E occurrence_id \in OccurrenceIds : DeleteRecord(occurrence_id)
  \/ \E occurrence_id \in OccurrenceIds, update_data \in UpdateInputs :
       UpdateRecord(occurrence_id, update_data)
  \/ \E kwargs \in SearchInputs : SearchRecords(kwargs)

Spec == Init /\ [][Next]_vars

\* ---------------------------------------------------------------- helpers of the properties
DedupTables == {"Organism", "Observer", "Location", "Event", "Media"}

\* the seven tables, without the AUTOINCREMENT bookkeeping
Tables(d) ==
  [t \in {"Organism", "Observer", "Location", "Event", "Media",
          "DatasetMetadata", "Record"} |-> d[t]]

\* the occurrence_id the fact writer stores for a source row
Occ(row) == Bind(Get(row, "occurrence_id", ""))

LocationKey(l) ==
  <<l.higher_geography, l.water_body, l.locality, l.verbatim_locality>>

MediaKey(m) == <<m.external_resource, m.catalog_number>>

\* a call of load_csv_data has returned after reading its frame
Loaded == pc = "idle" /\ ret.op = "load" /\ ~ret.readFailed

\* ---------------------------------------------------------------- C1
\* C1: when load_csv_data has run twice in a row on the same frame, the first
\* run on a fresh store, Organism, Observer, Location, Event and Media have
\* as many rows after the second run as after the first, and DatasetMetadata
\* has twice as many.
C1_IdempotentReingestion ==
  (Loaded /\ prev.valid /\ prev.fresh) =>
    /\ \A t \in DedupTables : Counts(committed)[t] = prev.counts[t]
    /\ Counts(committed).DatasetMetadata = 2 * prev.counts.DatasetMetadata

\* ---------------------------------------------------------------- C2
\* C2: in every reachable state no two rows of an entity table have the same
\* natural key, rows stored from missing key cells included, and the fact
\* rows of two source rows of a frame with the same location columns carry
\* the same location_id.
C2_NaturalKeyUnique ==
  /\ \A a, b \in db.Organism : a.organism_id = b.organism_id => a = b
  /\ \A a, b \in db.Observer : a.recorded_by = b.recorded_by => a = b
  /\ \A a, b \in db.Location : LocationKey(a) = LocationKey(b) => a = b
  /\ \A a, b \in db.Event : a.event_id = b.event_id => a = b
  /\ \A a, b \in db.Media : MediaKey(a) = MediaKey(b) => a = b
  /\ Loaded =>
       \A i, j \in 1..Len(batch) :
         ( /\ batch[i].raises_at = 0
           /\ batch[j].raises_at = 0
           /\ \A c \in {"higher_geography", "water_body", "locality",
                        "verbatim_locality"} : batch[i][c] = batch[j][c] )
         => \A r, q \in committed.Record :
              (r.occurrence_id = Occ(batch[i]) /\ q.occurrence_id = Occ(batch[j]))
              => r.location_id = q.location_id

\* ---------------------------------------------------------------- C3
\* C3: in every committed state each of the six foreign keys of every Record
\* row is the identifier of a row of its entity table.
C3_ReferentialIntegrity ==
  \A r \in committed.Record :
    /\ \E o \in committed.Organism : o.organism_id = r.organism_id
    /\ \E o \in committed.Observer : o.observer_id = r.observer_id
    /\ \E l \in committed.Location : l.location_id = r.location_id
    /\ \E e \in committed.Event : e.event_id = r.event_id
    /\ \E m \in committed.Media : m.media_id = r.media_id
    /\ \E m \in committed.DatasetMetadata :
         m.dataset_metadata_id = r.dataset_metadata_id

\* ---------------------------------------------------------------- C4
\* the Record rows a successful normalisation of row must leave for its
\* occurrence_id: one row, with the scalars of row (defaults where row has
\* none), the identifiers derived from row and the metadata row just made
UpsertedFrom(row, d) ==
  LET mine == {r \in d.Record : r.occurrence_id = Occ(row)}
  IN /\ Cardinality(mine) = 1
     /\ \A r \in mine :
          /\ r.decimal_latitude = Bind(Get(row, "decimal_latitude", "0.0"))
          /\ r.event_date = Bind(Get(row, "event_date", ""))
          /\ r.organism_id = Str(Get(row, "organism_id", Get(row, "occurrence_id", "")))
          /\ r.event_id = Str(Get(row, "event_id", Get(row, "occurrence_id", "")))
          /\ r.dataset_metadata_id = d.seq.DatasetMetadata

\* C4: every successful normalisation (a turn of the ingestion loop, or an
\* add) leaves exactly one Record row with the row's occurrence_id, holding
\* the values computed from that row and nothing of what was there before.
C4_UpsertFullReplace ==
  [][ /\ (pc = "loop" /\ idx' = idx + 1 /\ batch[idx].raises_at = 0)
         => UpsertedFrom(batch[idx], db')
      /\ (ret'.op = "add" /\ ~ret'.raised /\ ret' # ret)
         => UpsertedFrom(batch'[1], db') ]_vars

\* ---------------------------------------------------------------- C5
\* C5: when load_csv_data returns, the loop has gone through every row and
\* the batch is committed: every row that did not raise has a committed
\* Record row with its occurrence_id, and for a row that raised, unless
\* another row of the batch wrote the same occurrence_id, the committed Record
\* rows with its occurrence_id are those from before the batch.
C5_RowIsolation ==
  Loaded =>
    /\ committed = db
    /\ idx = Len(batch) + 1
    /\ \A i \in 1..Len(batch) :
         IF batch[i].raises_at = 0
         THEN \E r \in committed.Record : r.occurrence_id = Occ(batch[i])
         ELSE (\A j \in 1..Len(batch) :
                 batch[j].raises_at = 0 => Occ(batch[j]) # Occ(batch[i]))
              => {r \in committed.Record : r.occurrence_id = Occ(batch[i])}
                 = {r \in start.Record : r.occurrence_id = Occ(batch[i])}

\* a batch whose first row raised and whose second row is committed, with a
\* new occurrence_id
C5_Witness ==
  /\ Loaded
  /\ Len(batch) = 2
  /\ batch[1].raises_at # 0
  /\ batch[2].raises_at = 0
  /\ \E r \in committed.Record : r.occurrence_id = Occ(batch[2])
  /\ ~\E r \in start.Record : r.occurrence_id = Occ(batch[2])

\* ---------------------------------------------------------------- C6
\* C6: when load_csv_data returns after the read of the source failed, the
\* committed contents of the seven tables are those from before the call.
C6_ReadFailureCommitsNothing ==
  (ret.op = "load" /\ ret.readFailed) => Tables(committed) = Tables(start)

\* a failed read on a store that has rows
C6_Witness ==
  /\ ret.op = "load"
  /\ ret.readFailed
  /\ committed.Record # {}

\* ---------------------------------------------------------------- C7
\* C7: while the row loop runs the committed store is the one from before
\* the batch, and so it is after a crash in the loop, whatever number of
\* rows had been processed.
C7_SingleCommit ==
  (pc = "loop" \/ ret.op = "crash") => committed = start

\* a crash after a row had been written to the working state
C7_Witness ==
  /\ ret.op = "crash"
  /\ idx = 2
  /\ Len(batch) = 2
  /\ batch[1].raises_at = 0
  /\ ~\E r \in committed.Record : r.occurrence_id = Occ(batch[1])

\* ---------------------------------------------------------------- C8
\* C8 as stated: a row-level failure is not surfaced to the caller of
\* load_csv_data, and a failure to read the source is raised to it.
C8_BatchFailurePropagates ==
  ret.op = "load" =>
    /\ (skipped # {} => ~ret.raised)
    /\ (ret.readFailed => ret.raised)

\* C8 as amended: load_csv_data raises neither a row-level failure nor a
\* failure to read the source to its caller; it returns normally after both.
C8_NoFailureSurfaced ==
  ret.op = "load" => ~ret.raised

\* load_csv_data has returned after a failed read
C8_Witness ==
  /\ pc = "idle"
  /\ ret.op = "load"
  /\ ret.readFailed
  /\ ~ret.raised

\* ---------------------------------------------------------------- C9
\* C9: when add_new_record returns an identifier, the committed Record table
\* has a row with that occurrence_id.
C9_AddReturnsStoredId ==
  (ret.op = "add" /\ ~ret.raised /\ ret.value # NaN) =>
    \E r \in committed.Record : r.occurrence_id = ret.value

\* ---------------------------------------------------------------- C10
\* C10: an add_new_record whose normalisation raises re-raises to its
\* caller, and the seven tables, working and committed, are as before it.
C10_FailedAddAtomic ==
  (ret.op = "add" /\ batch[1].raises_at # 0) =>
    /\ ret.raised
    /\ Tables(db) = Tables(start)
    /\ Tables(committed) = Tables(start)

\* a failed add on a store that has rows, none of them of the observer of
\* the failed record
C10_Witness ==
  /\ ret.op = "add"
  /\ ret.raised
  /\ committed.Record # {}
  /\ Len(batch) = 1
  /\ ~\E o \in db.Observer : o.recorded_by = batch[1].recorded_by

\* ---------------------------------------------------------------- C11
EntityTables ==
  {"Organism", "Observer", "Location", "Event", "Media", "DatasetMetadata"}

\* the Record rows of a store with a given occurrence_id
RecordsOf(d, occurrence_id) ==
  {r \in d.Record : r.occurrence_id = occurrence_id}

\* C11: delete_record(id) returns true exactly when a Record row with that
\* occurrence_id existed before the call, and no such row exists after it
\* (so a repeated delete of the same id returns false).
C11_DeleteReportsRemoval ==
  ret.op = "delete" =>
    /\ ret.ok <=> RecordsOf(start, ret.arg) # {}
    /\ RecordsOf(db, ret.arg) = {}
    /\ RecordsOf(committed, ret.arg) = {}

\* a delete that removed a row
C11_Witness ==
  /\ ret.op = "delete"
  /\ ret.ok
  /\ RecordsOf(start, ret.arg) # {}

\* ---------------------------------------------------------------- C12
\* C12: delete_record(id) leaves the six entity tables as they were and every
\* Record row with another occurrence_id as it was, whether or not id existed.
C12_DeleteDoesNotCascade ==
  ret.op = "delete" =>
    /\ \A t \in EntityTables : db[t] = start[t] /\ committed[t] = start[t]
    /\ db.Record \ RecordsOf(db, ret.arg) = start.Record \ RecordsOf(start, ret.arg)
    /\ committed.Record = db.Record

\* a delete that removed a row and left its entities and another fact row
C12_Witness ==
  /\ ret.op = "delete"
  /\ ret.ok
  /\ db.Record # {}
  /\ \E r \in RecordsOf(start, ret.arg) :
       \E m \in db.DatasetMetadata : m.dataset_metadata_id = r.dataset_metadata_id

\* ---------------------------------------------------------------- C13
\* C13: an update_record for an occurrence_id without Record row, or with an
\* update_data that names none of record_fields, returns false and leaves
\* the store, working and committed, as it was.
C13_UpdateNoOp ==
  [][ \A occurrence_id \in OccurrenceIds, update_data \in UpdateInputs :
        ( /\ UpdateRecord(occurrence_id, update_data)
          /\ \/ RecordsOf(db, occurrence_id) = {}
             \/ \A f \in record_fields : update_data[f] = Absent )
        => /\ ~ret'.ok
           /\ db' = db
           /\ committed' = committed ]_vars

\* an update of an existing row that returned false
C13_Witness ==
  /\ ret.op = "update"
  /\ ~ret.ok
  /\ RecordsOf(db, ret.arg) # {}

\* ---------------------------------------------------------------- C14
\* C14: an update_record of an existing occurrence_id with at least one field
\* of record_fields returns true; the row has the supplied values in the
\* supplied fields and its former values in every other column, and the other
\* Record rows and the six entity tables are as they were.
C14_UpdateChangesOnlyNamed ==
  [][ \A occurrence_id \in OccurrenceIds, update_data \in UpdateInputs :
        ( /\ UpdateRecord(occurrence_id, update_data)
          /\ RecordsOf(db, occurrence_id) # {}
          /\ \E f \in record_fields : update_data[f] # Absent )
        => /\ ret'.ok
           /\ committed' = db'
           /\ \A t \in EntityTables : db'[t] = db[t]
           /\ db'.Record \ RecordsOf(db', occurrence_id)
                = db.Record \ RecordsOf(db, occurrence_id)
           /\ Cardinality(RecordsOf(db', occurrence_id))
                = Cardinality(RecordsOf(db, occurrence_id))
           /\ \A old \in RecordsOf(db, occurrence_id) :
                \E new \in RecordsOf(db', occurrence_id) :
                  \A f \in DOMAIN old :
                    new[f] = IF f \in record_fields /\ update_data[f] # Absent
                             THEN update_data[f] ELSE old[f] ]_vars

\* an update that set the latitude of a row and left its date
C14_Witness ==
  /\ ret.op = "update"
  /\ ret.ok
  /\ \E r \in RecordsOf(db, ret.arg) :
       /\ r.decimal_latitude = "30.0"
       /\ r.event_date # ""
       /\ \E q \in RecordsOf(start, ret.arg) :
            q.decimal_latitude # "30.0" /\ q.event_date = r.event_date

\* ---------------------------------------------------------------- C15
\* C15: in every reachable state no natural-key column of an entity table
\* and no scalar column of Record holds null, whether the source column was
\* absent from the frame or present with an empty cell.
C15_NoNullFromMissing ==
  /\ \A o \in db.Organism : o.organism_id # Null
  /\ \A o \in db.Observer : o.recorded_by # Null
  /\ \A l \in db.Location : \A i \in 1..4 : LocationKey(l)[i] # Null
  /\ \A e \in db.Event : e.event_id # Null
  /\ \A m \in db.Media : \A i \in 1..2 : MediaKey(m)[i] # Null
  /\ \A r \in db.Record :
       /\ r.occurrence_id # Null
       /\ r.decimal_latitude # Null
       /\ r.event_date # Null

\* ---------------------------------------------------------------- C16
\* the fact row of a result row
FactOf(j) == j.r

\* C16: search_records with no filter given returns one result per Record
\* row of the store; in general it returns the unfiltered results that meet
\* every given filter, and nothing when a given filter matches nothing.
C16_SearchConjunction ==
  ret.op = "search" =>
    LET kwargs == ret.arg
        given == {key \in Filters : Given(kwargs, key)}
        all == Select(db, Kwargs(Absent, Absent, Absent, Absent, Absent))
    IN /\ given = {} =>
            /\ {FactOf(j) : j \in ret.value} = db.Record
            /\ Cardinality(ret.value) = Cardinality(db.Record)
       /\ ret.value = {j \in all : \A key \in given : Condition(j, kwargs, key)}
       /\ (\E key \in given : \A j \in all : ~Condition(j, kwargs, key))
            => ret.value = {}

\* ---------------------------------------------------------------- C17
\* C17: on every exit path of the entry point (normal end of the with-body,
\* an exception inside it, a failure of the table provisioning in the
\* constructor) the connection that was opened has been closed exactly once.
C17_ReleasedExactlyOnce ==
  (pc \in {"closed", "raised", "aborted"} /\ conn.opened) => conn.closes = 1

\* ---------------------------------------------------------------- C18
\* the source row whose normalisation has just ended without a failure of
\* one of its statements: the last turn of the row loop, or an add
JustNormalised ==
  IF pc = "loop" /\ idx > 1 /\ batch[idx - 1].raises_at = 0
  THEN {batch[idx - 1]}
  ELSE IF pc = "idle" /\ ret.op = "add" /\ batch[1].raises_at = 0
       THEN {batch[1]}
       ELSE {}

\* the natural key of the resolver has a missing value in the row
ObserverKeyMissing(row) == Bind(Get(row, "recorded_by", "")) = Null

LocationKeyMissing(row) ==
  \E c \in {"higher_geography", "water_body", "locality", "verbatim_locality"} :
    Bind(Get(row, c, "")) = Null

MediaKeyMissing(row) ==
  \E c \in {"external_resource", "catalog_number"} : Bind(Get(row, c, "")) = Null

\* C18: when the natural key of the Observer, Location or Media resolver has
\* a missing value, the normalisation does not fail and the row is not
\* skipped: the Record row of the source row is written, with None in the
\* foreign key of that resolver.
C18_UnresolvedKeyTolerated ==
  \A row \in JustNormalised :
    /\ pc = "loop" => (idx - 1) \notin skipped
    /\ pc = "idle" => ~ret.raised
    /\ \E r \in db.Record :
         /\ r.occurrence_id = Occ(row)
         /\ r.dataset_metadata_id = db.seq.DatasetMetadata
         /\ ObserverKeyMissing(row) => r.observer_id = NoneId
         /\ LocationKeyMissing(row) => r.location_id = NoneId
         /\ MediaKeyMissing(row) => r.media_id = NoneId

\* a turn of the row loop has written the fact row of a row without
\* observer, with the observer_id left out and the location resolved
C18_Witness ==
  /\ pc = "loop"
  /\ idx > 1
  /\ ObserverKeyMissing(batch[idx - 1])
  /\ \E r \in db.Record :
       /\ r.dataset_metadata_id = db.seq.DatasetMetadata
       /\ r.observer_id = NoneId

\* ---------------------------------------------------------------- C19
MetadataIds(d) == {m.dataset_metadata_id : m \in d.DatasetMetadata}

\* C19: no two Record rows have the same dataset_metadata_id; every
\* normalisation that reaches the metadata step (a turn of the row loop that
\* does not raise before it, or an add that succeeds) leaves the metadata rows
\* that were there and adds exactly one, with an identifier none of them has;
\* and no step removes or changes a committed metadata row.
C19_MetadataNeverShared ==
  /\ [](\A a, b \in db.Record :
          a.dataset_metadata_id = b.dataset_metadata_id => a = b)
  /\ [][ /\ committed.DatasetMetadata \subseteq committed'.DatasetMetadata
         /\ \A row \in SourceRows :
              ( \/ LoadRow /\ batch[idx] = row /\ row.raises_at \in {0, 7}
                \/ AddNewRecord(row) /\ row.raises_at = 0 )
              => /\ db.DatasetMetadata \subseteq db'.DatasetMetadata
                 /\ Cardinality(db'.DatasetMetadata \ db.DatasetMetadata) = 1
                 /\ MetadataIds(db') \ MetadataIds(db) # {} ]_vars

\* the same occurrence was ingested more than once: there are more metadata
\* rows than fact rows, and two fact rows
C19_Witness ==
  /\ Cardinality(committed.Record) >= 2
  /\ Cardinality(committed.DatasetMetadata) > Cardinality(committed.Record)

\* ---------------------------------------------------------------- C20
\* the entity rows that the resolvers run before the failing step of row
\* resolve to are in store d
EntitiesBeforeFailure(row, d) ==
  LET k == row.raises_at
  IN /\ (k > 1 /\ Bind(Get(row, "scientific_name", "")) # Null) =>
          \E o \in d.Organism :
            o.organism_id = Str(Get(row, "organism_id", Get(row, "occurrence_id", "")))
     /\ (k > 2 /\ ~ObserverKeyMissing(row)) =>
          \E o \in d.Observer : o.recorded_by = Get(row, "recorded_by", "")
     /\ (k > 3 /\ ~LocationKeyMissing(row)) =>
          \E l \in d.Location :
            LocationKey(l) = <<Get(row, "higher_geography", ""), Get(row, "water_body", ""),
                               Get(row, "locality", ""), Get(row, "verbatim_locality", "")>>
     /\ k > 4 =>
          \E e \in d.Event :
            e.event_id = Str(Get(row, "event_id", Get(row, "occurrence_id", "")))
     /\ (k > 5 /\ ~MediaKeyMissing(row)) =>
          \E m \in d.Media :
            MediaKey(m) = <<Get(row, "external_resource", ""), Get(row, "catalog_number", "")>>

\* C20: when load_csv_data has returned, the entity rows resolved by a row
\* that raised are committed, a metadata row is committed for every row that
\* reached the metadata step, whether or not it raised afterwards, and no
\* Record row is committed for a row that raised: at most as many Record rows
\* point to metadata rows of this batch as rows did not raise.
C20_FailedRowLeavesEntities ==
  Loaded =>
    LET raising == {i \in 1..Len(batch) : batch[i].raises_at # 0}
        reached == {i \in 1..Len(batch) : batch[i].raises_at \in {0, 7}}
        written == {r \in committed.Record :
                      r.dataset_metadata_id \notin MetadataIds(start)}
    IN /\ \A i \in raising : EntitiesBeforeFailure(batch[i], committed)
       /\ Cardinality(committed.DatasetMetadata)
            = Cardinality(start.DatasetMetadata) + Cardinality(reached)
       /\ Cardinality(written) <= Len(batch) - Cardinality(raising)

\* a batch with a row that raised has been committed: the observer of that
\* row is new and committed, no fact row points to it, and a metadata row of
\* the batch has no fact row
C20_Witness ==
  /\ Loaded
  /\ skipped # {}
  /\ \E i \in skipped :
       \E o \in committed.Observer :
         /\ o.recorded_by = batch[i].recorded_by
         /\ o \notin start.Observer
         /\ \A r \in committed.Record : r.observer_id # o.observer_id
  /\ \E m \in committed.DatasetMetadata \ start.DatasetMetadata :
       \A r \in committed.Record : r.dataset_metadata_id # m.dataset_metadata_id

\* ---------------------------------------------------------------- C21
\* C21: no step (ingestion, add, update, delete, search) removes a committed
\* row of Organism, Observer, Location, Event or Media or changes its
\* identifier or one of its attributes, and no step but the loss of the
\* uncommitted work in a crash does so to a row of the working state, while
\* the Record row of an occurrence_id is replaced by a later normalisation.
C21_EntitiesFirstWriterWins ==
  [][ /\ \A t \in DedupTables : committed[t] \subseteq committed'[t]
      /\ ~Crash => \A t \in DedupTables : db[t] \subseteq db'[t] ]_vars

\* occurrence X was written by RowX1 and then by RowX2: the committed fact
\* row is the one of RowX2, the Organism and Observer rows are those of RowX1
C21_Witness ==
  /\ pc = "idle"
  /\ \E r \in committed.Record :
       /\ r.occurrence_id = "X"
       /\ r.decimal_latitude = RowX2.decimal_latitude
       /\ \E o \in committed.Organism :
            /\ o.organism_id = r.organism_id
            /\ o.scientific_name = RowX1.scientific_name
       /\ \E o \in committed.Observer :
            /\ o.observer_id = r.observer_id
            /\ o.institution_code = RowX1.institution_code

\* ---------------------------------------------------------------- C22
\* C22: whenever no operation is running (load_csv_data, add_new_record,
\* delete_record, update_record have returned or raised), the working state
\* of the connection equals its committed state; so the rollback of a failed
\* add leaves the working state as it was before the call.
C22_NothingLeftUncommitted ==
  /\ [](pc = "idle" => db = committed)
  /\ [][ \A record_data \in SourceRows :
           (AddNewRecord(record_data) /\ ret'.raised) => db' = db ]_vars

\* an add has failed and rolled back on a store that earlier operations
\* filled: their rows are still there, working and committed
C22_Witness ==
  /\ pc = "idle"
  /\ ret.op = "add"
  /\ ret.raised
  /\ db = committed
  /\ Cardinality(db.Record) >= 2

====
